---- MODULE Spec2Model ----
(***************************************************************************)
(* A model of src/app.py: the YouTube video content generator.  One run of *)
(* the Streamlit script is a state machine: the top of the script (thumb-   *)
(* nail and title lookup), the 'Generate Content' handler (transcript       *)
(* retrieval, up to four generation calls, assembly), create_pdf (the       *)
(* section and line loops), and the download button.                        *)
(*                                                                          *)
(* Python str values are TLA+ strings; split, strip, startswith and `in`    *)
(* are computed on the characters.  A Python value that may be None is a    *)
(* record: None, or Str(s).                                                 *)
(***************************************************************************)
EXTENDS Integers, Sequences, FiniteSets, TLC

VARIABLES
    youtube_link,               \* st.text_input
    include_key_points,         \* st.checkbox
    include_qa,                 \* st.checkbox
    include_code_explanation,   \* st.checkbox
    button,                     \* st.button("Generate Content")
    video_title,                \* module-level video_title
    video_id,                   \* result of the last extract_video_id call
    pc,                         \* position in the script
    en_outcome,                 \* outcome of get_transcript(video_id, languages=['en'])
    any_outcome,                \* outcome of get_transcript(video_id)
    transcript_text,
    summary, key_points, qa, code_explanation,
    content,
    calls,                      \* calls made to the collaborators, in order
    ui,                         \* what the script displayed, in order
    raised,                     \* the exception that left the script, "" if none
    pdf_data,
    download,                   \* the arguments of st.download_button
    sections, sec,              \* create_pdf: content.split("## ") and the loop index
    paragraphs, par,            \* create_pdf: body.split("\n") and the loop index
    in_code_block, code_buffer, \* create_pdf: the code-block state
    pdf                         \* create_pdf: what was written to the document, in order

inputs == <<youtube_link, include_key_points, include_qa, include_code_explanation, button>>
retrieval == <<en_outcome, any_outcome, transcript_text>>
generated == <<summary, key_points, qa, code_explanation, content>>
render == <<sections, sec, paragraphs, par, in_code_block, code_buffer, pdf>>
vars == <<inputs, video_title, video_id, pc, retrieval, generated, calls, ui, raised,
          pdf_data, download, render>>

-----------------------------------------------------------------------------
(* Python values *)

None == [tag |-> "None"]
Unbound == [tag |-> "unbound"]
Str(s) == [tag |-> "str", v |-> s]
Returned(v) == [exc |-> "", v |-> v]
Raise(e) == [exc |-> e, v |-> ""]

\* bool(x) of an Optional[str]
Truthy(x) == x.tag = "str" /\ x.v # ""

-----------------------------------------------------------------------------
(* Python str operations *)

\* s[i-1:].startswith(p)
StartsWithAt(s, p, i) ==
    /\ i >= 1
    /\ i + Len(p) - 1 <= Len(s)
    /\ SubSeq(s, i, i + Len(p) - 1) = p

\* s.startswith(p)
StartsWith(s, p) == StartsWithAt(s, p, 1)

\* s.find(p, from-1) + 1: the first position >= from at which p occurs, 0 if none
Find(s, p, from) ==
    LET hits == {i \in from..(Len(s) - Len(p) + 1) : StartsWithAt(s, p, i)}
    IN  IF hits = {} THEN 0 ELSE CHOOSE i \in hits : \A j \in hits : i <= j

\* p in s
Contains(s, p) == Find(s, p, 1) # 0

\* s.split(sep)
RECURSIVE Split(_, _)
Split(s, sep) ==
    LET i == Find(s, sep, 1)
    IN  IF i = 0 THEN <<s>>
        ELSE <<SubSeq(s, 1, i - 1)>> \o Split(SubSeq(s, i + Len(sep), Len(s)), sep)

\* s.split(sep, 1)
Split1(s, sep) ==
    LET i == Find(s, sep, 1)
    IN  IF i = 0 THEN <<s>>
        ELSE <<SubSeq(s, 1, i - 1), SubSeq(s, i + Len(sep), Len(s))>>

Whitespace == {" ", "\t", "\n", "\r"}

\* s.lstrip(), s.rstrip(), s.strip()
RECURSIVE LStrip(_)
LStrip(s) ==
    IF s # "" /\ SubSeq(s, 1, 1) \in Whitespace THEN LStrip(SubSeq(s, 2, Len(s))) ELSE s

RECURSIVE RStrip(_)
RStrip(s) ==
    IF s # "" /\ SubSeq(s, Len(s), Len(s)) \in Whitespace
    THEN RStrip(SubSeq(s, 1, Len(s) - 1)) ELSE s

Strip(s) == LStrip(RStrip(s))

\* sep.join(parts)
RECURSIVE Join(_, _)
Join(sep, parts) ==
    IF parts = <<>> THEN ""
    ELSE IF Len(parts) = 1 THEN parts[1]
    ELSE parts[1] \o sep \o Join(sep, Tail(parts))

-----------------------------------------------------------------------------
(* extract_video_id *)

\* A parser that keeps everything after "v=", the "&" and what follows included.
extract_video_id_keeps_query(youtube_url) ==
    IF Contains(youtube_url, "youtu.be/")
    THEN Returned(Split(Split(youtube_url, "youtu.be/")[2], "?")[1])
    ELSE IF Contains(youtube_url, "youtube.com/watch?v=")
    THEN Returned(Split(youtube_url, "v=")[2])
    ELSE Raise("ValueError")

extract_video_id(youtube_url) ==
    IF Contains(youtube_url, "youtu.be/")
    THEN Returned(Split(Split(youtube_url, "youtu.be/")[2], "?")[1])
    ELSE IF Contains(youtube_url, "youtube.com/watch?v=")
    THEN Returned(Split(Split(youtube_url, "v=")[2], "&")[1])
    ELSE Raise("ValueError")

-----------------------------------------------------------------------------
(* The prompts *)

summary_prompt == "You are a YouTube video summarizer. Provide a concise summary of the following transcript within 250 words: "
key_points_prompt == "Extract and list the key points from the following video transcript: "
qa_prompt == "Based on the following video transcript, generate 5 relevant questions and their answers. Format each as 'Question: [question]' followed by 'Answer: [answer]' without any asterisks or additional formatting: "
code_explanation_prompt == "Extract the code snippets from the following video transcript and provide a detailed explanation for each code snippet: "

-----------------------------------------------------------------------------
(* What the collaborators may do *)

\* The links a requester may type
Links == {"", "not a link", "https://youtu.be/abc123?t=1",
          "https://www.youtube.com/watch?v=abc123&x=y"}

\* The titles the video-metadata provider may hold
ApiTitles == {"Intro", "A/B: C?"}

\* The segment texts the transcript provider may return
Segments == {<<>>, <<"a", "b">>}

\* The ways a transcript call may fail
TranscriptErrors == {"TranscriptsDisabled", "NoTranscriptFound", "ConnectionError"}

\* The texts the generative-text provider may return
GenTexts == {"", "S", "Q"}

Call(fn, arg) == [fn |-> fn, arg |-> arg]
Shown(kind, line) == [kind |-> kind, line |-> line]

-----------------------------------------------------------------------------
(* The except clauses *)

\* An except clause that lets an invalid URL through
ExceptException_not_ValueError(e) == e # "ValueError"

\* except Exception (line 52): every exception raised under the try is an Exception
ExceptException(e) == e \in TranscriptErrors \cup {"ValueError"}

\* except TranscriptsDisabled (line 48)
ExceptTranscriptsDisabled(e) == e = "TranscriptsDisabled"

-----------------------------------------------------------------------------
(* The top of the script: lines 166-186 *)

TopOfScript ==
    /\ pc = "top"
    /\ LET id == extract_video_id(youtube_link)
       IN  IF youtube_link = ""
           THEN /\ video_title' = "Video Title Not Available"
                /\ UNCHANGED <<video_id, calls, ui>>
           ELSE IF id.exc # ""
           THEN /\ video_title' = "Video Title Not Available"
                /\ video_id' = id
                /\ ui' = ui \o <<Shown("error", 184)>>
                /\ UNCHANGED calls
           ELSE /\ video_id' = id
                /\ calls' = calls \o <<Call("get_video_title", id.v)>>
                /\ \E answer \in {"items", "no items", "error"} : \E t \in ApiTitles :
                      IF answer = "items"
                      THEN /\ video_title' = t
                           /\ ui' = ui \o <<Shown("image", 179), Shown("write", 182)>>
                      ELSE /\ video_title' = "Video Title Not Available"
                           /\ ui' = ui \o <<Shown("image", 179),
                                            Shown("error", IF answer = "error" THEN 163 ELSE 160),
                                            Shown("write", 182)>>
    /\ pc' = IF button THEN "extract_transcript_details" ELSE "done"
    /\ UNCHANGED <<inputs, retrieval, generated, raised, pdf_data, download, render>>

-----------------------------------------------------------------------------
(* extract_transcript_details: lines 42-54 *)

\* An exception e raised under the outer try: caught, shown, None returned;
\* what the except clause does not catch leaves the function and the script.
EtdFails(e) ==
    IF ExceptException(e)
    THEN /\ ui' = ui \o <<Shown("error", 53)>>
         /\ transcript_text' = None
         /\ pc' = "handler"
         /\ UNCHANGED raised
    ELSE /\ raised' = e
         /\ pc' = "done"
         /\ UNCHANGED <<ui, transcript_text>>

\* lines 50-51
EtdReturns(transcript) ==
    /\ transcript_text' = Str(Join(" ", transcript))
    /\ pc' = "handler"
    /\ UNCHANGED <<ui, raised>>

\* line 45
EtdParse ==
    /\ pc = "extract_transcript_details"
    /\ video_id' = extract_video_id(youtube_link)
    /\ IF video_id'.exc # ""
       THEN EtdFails(video_id'.exc)
       ELSE /\ pc' = "get_transcript_en"
            /\ UNCHANGED <<ui, transcript_text, raised>>
    /\ UNCHANGED <<inputs, video_title, en_outcome, any_outcome, generated, calls,
                   pdf_data, download, render>>

\* lines 46-48
EtdCallEn ==
    /\ pc = "get_transcript_en"
    /\ calls' = calls \o <<Call("get_transcript_en", video_id.v)>>
    /\ \E outcome \in {"ok"} \cup TranscriptErrors : \E transcript \in Segments :
          /\ en_outcome' = outcome
          /\ IF outcome = "ok" THEN EtdReturns(transcript)
             ELSE IF ExceptTranscriptsDisabled(outcome)
             THEN /\ pc' = "get_transcript"
                  /\ UNCHANGED <<ui, transcript_text, raised>>
             ELSE EtdFails(outcome)
    /\ UNCHANGED <<inputs, video_title, video_id, any_outcome, generated,
                   pdf_data, download, render>>

\* A fallback that calls the provider again when it fails
EtdCallAny_retries ==
    /\ pc = "get_transcript"
    /\ Len(calls) < 6
    /\ calls' = calls \o <<Call("get_transcript", video_id.v)>>
    /\ \E outcome \in {"ok"} \cup TranscriptErrors : \E transcript \in Segments :
          /\ any_outcome' = outcome
          /\ IF outcome = "ok" THEN EtdReturns(transcript)
             ELSE UNCHANGED <<pc, ui, transcript_text, raised>>
    /\ UNCHANGED <<inputs, video_title, video_id, en_outcome, generated,
                   pdf_data, download, render>>

\* line 49
EtdCallAny ==
    /\ pc = "get_transcript"
    /\ calls' = calls \o <<Call("get_transcript", video_id.v)>>
    /\ \E outcome \in {"ok"} \cup TranscriptErrors : \E transcript \in Segments :
          /\ any_outcome' = outcome
          /\ IF outcome = "ok" THEN EtdReturns(transcript) ELSE EtdFails(outcome)
    /\ UNCHANGED <<inputs, video_title, video_id, en_outcome, generated,
                   pdf_data, download, render>>

-----------------------------------------------------------------------------
(* The 'Generate Content' handler: lines 186-225 *)

\* A guard that lets an empty transcript through
HasTranscript_not_None == transcript_text.tag = "str"

\* if transcript_text: (line 190)
HasTranscript == Truthy(transcript_text)

\* lines 190-191, 224-225
HandlerCheck ==
    /\ pc = "handler"
    /\ IF HasTranscript
       THEN /\ content' = ""
            /\ pc' = "summary"
            /\ UNCHANGED ui
       ELSE /\ ui' = ui \o <<Shown("error", 225)>>
            /\ pc' = "done"
            /\ UNCHANGED content
    /\ UNCHANGED <<inputs, video_title, video_id, retrieval, summary, key_points, qa,
                   code_explanation, calls, raised, pdf_data, download, render>>

\* What a generation call may return: the text, or None after a displayed error
GenOutcomes == {Str(t) : t \in GenTexts} \cup {None}

\* generate_gemini_content (lines 56-64), given what the provider does
generate_gemini_content(prompt, result) ==
    /\ calls' = calls \o <<Call("generate_content", prompt \o transcript_text.v)>>
    /\ ui' = IF result = None THEN ui \o <<Shown("error", 63)>> ELSE ui

\* An assembler that adds the heading whether or not there is a body
AppendSection_heading_always(text, heading, body) ==
    text \o "## " \o heading \o ":\n" \o (IF Truthy(body) THEN body.v ELSE "") \o "\n\n"

\* if body: content += "## <heading>:\n" + body + "\n\n" (lines 194-195, 199-200, 204-205, 209-210)
AppendSection(text, heading, body) ==
    IF Truthy(body) THEN text \o "## " \o heading \o ":\n" \o body.v \o "\n\n" ELSE text

\* lines 193-195
GenSummary ==
    /\ pc = "summary"
    /\ \E result \in GenOutcomes :
          /\ generate_gemini_content(summary_prompt, result)
          /\ summary' = result
          /\ content' = AppendSection(content, "Summary", result)
    /\ pc' = "key_points"
    /\ UNCHANGED <<inputs, video_title, video_id, retrieval, key_points, qa,
                   code_explanation, raised, pdf_data, download, render>>

\* lines 197-200
GenKeyPoints ==
    /\ pc = "key_points"
    /\ IF include_key_points
       THEN \E result \in GenOutcomes :
               /\ generate_gemini_content(key_points_prompt, result)
               /\ key_points' = result
               /\ content' = AppendSection(content, "Key Points", result)
       ELSE UNCHANGED <<calls, ui, key_points, content>>
    /\ pc' = "qa"
    /\ UNCHANGED <<inputs, video_title, video_id, retrieval, summary, qa,
                   code_explanation, raised, pdf_data, download, render>>

\* A handler that asks for the questions and answers whatever the checkbox says
GenQA_ignores_checkbox ==
    /\ pc = "qa"
    /\ \E result \in GenOutcomes :
          /\ generate_gemini_content(qa_prompt, result)
          /\ qa' = result
          /\ content' = AppendSection(content, "Questions and Answers", result)
    /\ pc' = "code_explanation"
    /\ UNCHANGED <<inputs, video_title, video_id, retrieval, summary, key_points,
                   code_explanation, raised, pdf_data, download, render>>

\* lines 202-205
GenQA ==
    /\ pc = "qa"
    /\ IF include_qa
       THEN \E result \in GenOutcomes :
               /\ generate_gemini_content(qa_prompt, result)
               /\ qa' = result
               /\ content' = AppendSection(content, "Questions and Answers", result)
       ELSE UNCHANGED <<calls, ui, qa, content>>
    /\ pc' = "code_explanation"
    /\ UNCHANGED <<inputs, video_title, video_id, retrieval, summary, key_points,
                   code_explanation, raised, pdf_data, download, render>>

\* lines 207-210
GenCodeExplanation ==
    /\ pc = "code_explanation"
    /\ IF include_code_explanation
       THEN \E result \in GenOutcomes :
               /\ generate_gemini_content(code_explanation_prompt, result)
               /\ code_explanation' = result
               /\ content' = AppendSection(content, "Code Explanation", result)
       ELSE UNCHANGED <<calls, ui, code_explanation, content>>
    /\ pc' = "assembled"
    /\ UNCHANGED <<inputs, video_title, video_id, retrieval, summary, key_points, qa,
                   raised, pdf_data, download, render>>

\* lines 212-215, 222-223
CheckContent ==
    /\ pc = "assembled"
    /\ IF content # ""
       THEN /\ ui' = ui \o <<Shown("markdown", 213)>>
            /\ calls' = calls \o <<Call("create_pdf", content)>>
            /\ pc' = "create_pdf"
       ELSE /\ ui' = ui \o <<Shown("error", 223)>>
            /\ pc' = "done"
            /\ UNCHANGED calls
    /\ UNCHANGED <<inputs, video_title, video_id, retrieval, generated, raised,
                   pdf_data, download, render>>

\* lines 216-221: st.download_button, called with whatever create_pdf returned
DownloadButton ==
    /\ pc = "download_button"
    /\ download' = [data |-> pdf_data,
                    file_name |-> video_title \o "_summary.pdf",
                    mime |-> "application/pdf"]
    /\ ui' = ui \o <<Shown("download_button", 216)>>
    /\ calls' = calls \o <<Call("download_button", video_title \o "_summary.pdf")>>
    /\ pc' = "done"
    /\ UNCHANGED <<inputs, video_title, video_id, retrieval, generated, raised,
                   pdf_data, render>>

-----------------------------------------------------------------------------
(* create_pdf: lines 66-146 *)

\* What the font files and the PDF library may do
PdfFaults == {"none", "fonts not found", "add_font raises", "output raises"}

\* The bullet glyph of line 137, U+2022, which a TLA+ string cannot hold either
Bullet == "\\u2022"

\* One write to the document, by the section (index in `sections') it was made for
Wrote(op, font, text) == [op |-> op, font |-> font, text |-> text, sec |-> sec]

\* A renderer that carries the code-block state over from the previous section
SectionCodeState_carried == [in_code_block |-> in_code_block, code_buffer |-> code_buffer]

\* lines 106-107
SectionCodeState == [in_code_block |-> FALSE, code_buffer |-> <<>>]

\* The fence marker of line 110, three backticks.  A TLA+ string cannot hold a
\* backtick: "~" stands for it in every text of this module.
Fence == "~~~"

\* if paragraph.strip().startswith(<fence>) (line 110)
IsFence(paragraph) == StartsWith(Strip(paragraph), Fence)

\* lines 67-90
PdfFonts ==
    /\ pc = "create_pdf"
    /\ \E fault \in PdfFaults \ {"output raises"} :
          IF fault = "none"
          THEN /\ pdf' = <<[op |-> "multi_cell", font |-> "DejaVu B 14",
                            text |-> "Video Title: " \o video_title, sec |-> 0]>>
               /\ sections' = Split(content, "## ")
               /\ sec' = 2
               /\ pc' = "section"
               /\ UNCHANGED <<ui, pdf_data>>
          ELSE /\ ui' = ui \o <<Shown("error", IF fault = "fonts not found" THEN 71 ELSE 79)>>
               /\ pdf_data' = None
               /\ pc' = "download_button"
               /\ UNCHANGED <<pdf, sections, sec>>
    /\ UNCHANGED <<inputs, video_title, video_id, retrieval, generated, calls, raised,
                   download, paragraphs, par, in_code_block, code_buffer>>

\* lines 92-107, 146
PdfSection ==
    /\ pc = "section"
    /\ IF sec > Len(sections)
       THEN /\ \E fault \in {"none", "output raises"} :
                  IF fault = "none"
                  THEN /\ pdf_data' = [tag |-> "bytes", doc |-> pdf]
                       /\ pc' = "download_button"
                       /\ UNCHANGED raised
                  ELSE /\ raised' = "FPDFException"
                       /\ pc' = "done"
                       /\ UNCHANGED pdf_data
            /\ UNCHANGED <<sec, paragraphs, par, in_code_block, code_buffer, pdf>>
       ELSE IF Strip(sections[sec]) # ""
       THEN LET lines == Split1(sections[sec], "\n")
                title == lines[1]
                body == IF Len(lines) > 1 THEN lines[2] ELSE ""
            IN  /\ pdf' = pdf \o <<Wrote("cell", "DejaVu B 12", title)>>
                /\ in_code_block' = SectionCodeState.in_code_block
                /\ code_buffer' = SectionCodeState.code_buffer
                /\ paragraphs' = Split(body, "\n")
                /\ par' = 1
                /\ pc' = "paragraph"
                /\ UNCHANGED <<sec, pdf_data, raised>>
       ELSE /\ sec' = sec + 1
            /\ UNCHANGED <<pc, paragraphs, par, in_code_block, code_buffer, pdf,
                           pdf_data, raised>>
    /\ UNCHANGED <<inputs, video_title, video_id, retrieval, generated, calls, ui,
                   download, sections>>

\* lines 109-144
PdfParagraph ==
    /\ pc = "paragraph"
    /\ IF par > Len(paragraphs)
       THEN /\ sec' = sec + 1
            /\ pc' = "section"
            /\ UNCHANGED <<par, in_code_block, code_buffer, pdf>>
       ELSE LET paragraph == paragraphs[par]
            IN  /\ par' = par + 1
                /\ UNCHANGED <<sec, pc>>
                /\ IF IsFence(paragraph)
                   THEN /\ in_code_block' = ~in_code_block
                        /\ IF in_code_block
                           THEN /\ pdf' = pdf \o [i \in 1..Len(code_buffer) |->
                                                    Wrote("cell", "Courier 10", code_buffer[i])]
                                /\ code_buffer' = <<>>
                           ELSE UNCHANGED <<pdf, code_buffer>>
                   ELSE IF in_code_block
                   THEN /\ code_buffer' = Append(code_buffer, paragraph)
                        /\ UNCHANGED <<in_code_block, pdf>>
                   ELSE /\ UNCHANGED <<in_code_block, code_buffer>>
                        /\ pdf' =
                             IF StartsWith(paragraph, "Question:")
                             THEN pdf \o <<Wrote("multi_cell", "DejaVu B 11", paragraph)>>
                             ELSE IF StartsWith(paragraph, "Answer:")
                             THEN pdf \o <<Wrote("multi_cell", "DejaVu 11", paragraph)>>
                             ELSE IF StartsWith(paragraph, "*")
                             THEN IF StartsWith(paragraph, "* Key Points:")
                                  THEN pdf
                                  ELSE pdf \o <<Wrote("multi_cell", "DejaVu 11",
                                         Bullet \o " " \o Strip(SubSeq(paragraph, 2, Len(paragraph))))>>
                             ELSE pdf \o <<Wrote("multi_cell", "DejaVu 11", paragraph)>>
    /\ UNCHANGED <<inputs, video_title, video_id, retrieval, generated, calls, ui, raised,
                   pdf_data, download, sections, paragraphs>>

-----------------------------------------------------------------------------
(* One run of the script *)

\* The script's own state as a run starts
Fresh ==
    /\ video_title = "Video Title Not Available"
    /\ video_id = Unbound
    /\ pc = "top"
    /\ en_outcome = "not called"
    /\ any_outcome = "not called"
    /\ transcript_text = Unbound
    /\ summary = Unbound
    /\ key_points = Unbound
    /\ qa = Unbound
    /\ code_explanation = Unbound
    /\ content = ""
    /\ calls = <<>>
    /\ ui = <<>>
    /\ raised = ""
    /\ pdf_data = Unbound
    /\ download = Unbound

\* create_pdf's locals before it runs
NotRendering ==
    /\ sections = <<>>
    /\ sec = 0
    /\ paragraphs = <<>>
    /\ par = 0
    /\ in_code_block = FALSE
    /\ code_buffer = <<>>
    /\ pdf = <<>>

Init ==
    /\ youtube_link \in Links
    /\ include_key_points \in BOOLEAN
    /\ include_qa \in BOOLEAN
    /\ include_code_explanation \in BOOLEAN
    /\ button \in BOOLEAN
    /\ Fresh
    /\ NotRendering

Next ==
    \/ TopOfScript
    \/ EtdParse
    \/ EtdCallEn
    \/ EtdCallAny
    \/ HandlerCheck
    \/ GenSummary
    \/ GenKeyPoints
    \/ GenQA
    \/ GenCodeExplanation
    \/ CheckContent
    \/ PdfFonts
    \/ PdfSection
    \/ PdfParagraph
    \/ DownloadButton

Spec == Init /\ [][Next]_vars

-----------------------------------------------------------------------------
(* The URL parser on the links a requester may type: the top of the script,  *)
(* which parses the link on every run, with the button not pressed.          *)

MaxPieces == 4

UrlPieces == {"https://www.", "youtube.com/watch?v=", "abc", "&x=y", "v=", "youtu.be/", "?"}

\* The texts made of at most n pieces
RECURSIVE UrlsUpTo(_)
UrlsUpTo(n) ==
    IF n = 0 THEN {""}
    ELSE LET shorter == UrlsUpTo(n - 1)
         IN  shorter \cup {p \o u : p \in UrlPieces, u \in shorter}

InitUrl ==
    /\ youtube_link \in UrlsUpTo(MaxPieces)
    /\ include_key_points = FALSE
    /\ include_qa = FALSE
    /\ include_code_explanation = FALSE
    /\ button = FALSE
    /\ Fresh
    /\ NotRendering

NextUrl == TopOfScript

SpecUrl == InitUrl /\ [][NextUrl]_vars

-----------------------------------------------------------------------------
(* create_pdf on the texts the handler may assemble: the run from line 215,  *)
(* after a Summary call and, when its checkbox is set, a Key Points call.    *)

MaxLines == 3

\* The lines a generated summary may be made of
BodyLines == {"t", "~~~", " ~~~py", "## h"}

\* The texts of at most n lines
RECURSIVE BodiesUpTo(_)
BodiesUpTo(n) ==
    IF n = 1 THEN BodyLines
    ELSE LET shorter == BodiesUpTo(n - 1)
         IN  shorter \cup {l \o "\n" \o b : l \in BodyLines, b \in shorter}

\* What a Key Points call may return
KeyPointsTexts == {"* k", "~~~\nc\n~~~", "Question: q\nAnswer: a\n* Key Points: z"}

InitPdf ==
    /\ youtube_link = "https://youtu.be/abc123?t=1"
    /\ include_key_points \in BOOLEAN
    /\ include_qa = FALSE
    /\ include_code_explanation = FALSE
    /\ button = TRUE
    /\ video_title = "Intro"
    /\ video_id = Returned("abc123")
    /\ en_outcome = "ok"
    /\ any_outcome = "not called"
    /\ transcript_text = Str("a b")
    /\ summary \in {Str(b) : b \in BodiesUpTo(MaxLines)}
    /\ key_points \in IF include_key_points
                      THEN {None} \cup {Str(b) : b \in KeyPointsTexts}
                      ELSE {Unbound}
    /\ qa = Unbound
    /\ code_explanation = Unbound
    /\ content = AppendSection(AppendSection("", "Summary", summary),
                               "Key Points", key_points)
    /\ calls = <<Call("get_video_title", "abc123"), Call("get_transcript_en", "abc123"),
                 Call("generate_content", summary_prompt \o "a b")>>
               \o (IF include_key_points
                   THEN <<Call("generate_content", key_points_prompt \o "a b")>>
                   ELSE <<>>)
               \o <<Call("create_pdf", content)>>
    /\ ui = <<Shown("image", 179), Shown("write", 182)>>
            \o (IF key_points = None THEN <<Shown("error", 63)>> ELSE <<>>)
            \o <<Shown("markdown", 213)>>
    /\ raised = ""
    /\ pdf_data = Unbound
    /\ download = Unbound
    /\ pc = "create_pdf"
    /\ NotRendering

NextPdf ==
    \/ PdfFonts
    \/ PdfSection
    \/ PdfParagraph
    \/ DownloadButton

SpecPdf == InitPdf /\ [][NextPdf]_vars

-----------------------------------------------------------------------------
(* Observations on a run *)

\* The arguments of the calls to fn, in the order they were made
ArgsOf(fn) ==
    LET made == SelectSeq(calls, LAMBDA c : c.fn = fn)
    IN  [i \in 1..Len(made) |-> made[i].arg]

Count(fn) == Len(ArgsOf(fn))

\* The positions in `calls' of the calls to fn
Positions(fn) == {i \in 1..Len(calls) : calls[i].fn = fn}

IsPrefix(s, t) == Len(s) <= Len(t) /\ \A i \in 1..Len(s) : s[i] = t[i]

\* extract_transcript_details was called and is no longer running
EtdDone ==
    /\ button
    /\ pc \notin {"top", "extract_transcript_details", "get_transcript_en", "get_transcript"}

\* What the handler and the functions it calls displayed (the top of the script
\* displays at lines 160, 163, 179, 182 and 184)
ActionUi == SelectSeq(ui, LAMBDA e : e.line \notin {160, 163, 179, 182, 184})

ShownAt(kind, line) == \E i \in 1..Len(ui) : ui[i] = Shown(kind, line)

-----------------------------------------------------------------------------
\* C1: the unconstrained transcript call is made exactly once when the English
\* call raised TranscriptsDisabled and never otherwise (so never after a success);
\* when it fails too, an error is displayed, None is returned and no further
\* provider call is made.
C1_FallbackExactlyOnce ==
    /\ Count("get_transcript_en") <= 1
    /\ Count("get_transcript") <= 1
    /\ (en_outcome = "TranscriptsDisabled" /\ EtdDone) => Count("get_transcript") = 1
    /\ en_outcome # "TranscriptsDisabled" => Count("get_transcript") = 0
    /\ en_outcome = "ok" => any_outcome = "not called"
    /\ any_outcome \in TranscriptErrors =>
          /\ EtdDone
          /\ transcript_text = None
          /\ ShownAt("error", 53)
          /\ Count("get_transcript_en") + Count("get_transcript") = 2

C1_Witness ==
    /\ pc = "done"
    /\ en_outcome = "TranscriptsDisabled"
    /\ any_outcome = "NoTranscriptFound"
    /\ transcript_text = None
    /\ ArgsOf("get_transcript") = <<"abc123">>

\* C2: extract_transcript_details never lets an exception out: whatever fails
\* (the URL parser, either provider call), it displays an error and returns
\* None; it returns a string only when a provider call succeeded.
C2_NeverRaises ==
    /\ raised \notin TranscriptErrors \cup {"ValueError"}
    /\ EtdDone => transcript_text # Unbound
    /\ (/\ EtdDone
        /\ \/ video_id.exc # ""
           \/ en_outcome \in TranscriptErrors \ {"TranscriptsDisabled"}
           \/ any_outcome \in TranscriptErrors)
       => (transcript_text = None /\ ShownAt("error", 53))
    /\ transcript_text.tag = "str" => (en_outcome = "ok" \/ any_outcome = "ok")

C2_Witness ==
    /\ pc = "handler"
    /\ youtube_link = "not a link"
    /\ video_id = Raise("ValueError")
    /\ transcript_text = None
    /\ ShownAt("error", 53)

-----------------------------------------------------------------------------
\* The sections the handler asked for, with what each generation call returned
Asked ==
    <<[heading |-> "Summary", body |-> summary],
      [heading |-> "Key Points", body |-> key_points],
      [heading |-> "Questions and Answers", body |-> qa],
      [heading |-> "Code Explanation", body |-> code_explanation]>>

\* Those of them whose call returned a text
Kept == SelectSeq(Asked, LAMBDA a : a.body.tag = "str" /\ a.body.v # "")

RECURSIVE Blocks(_)
Blocks(kept) ==
    IF kept = <<>> THEN ""
    ELSE "## " \o kept[1].heading \o ":\n" \o kept[1].body.v \o "\n\n" \o Blocks(Tail(kept))

\* C3: a generation call that fails leaves out its own heading and body and
\* nothing else: the assembled text is the blocks of the calls that returned a
\* text, in order, and every selected section is still asked for.
C3_FailedSectionOmitted ==
    /\ pc \in {"key_points", "qa", "code_explanation", "assembled"} => content = Blocks(Kept)
    /\ pc = "assembled" =>
          /\ summary # Unbound
          /\ include_key_points => key_points # Unbound
          /\ include_qa => qa # Unbound
          /\ include_code_explanation => code_explanation # Unbound
          /\ \A i \in 1..4 :
                Asked[i].body = None =>
                   ~Contains(content, "## " \o Asked[i].heading \o ":\n")

C3_Witness ==
    /\ pc = "assembled"
    /\ summary = Str("S")
    /\ key_points = None
    /\ qa = Str("Q")
    /\ content = "## Summary:\nS\n\n## Questions and Answers:\nQ\n\n"

\* C4: with a malformed URL or no transcript (None, or an empty text) the
\* action makes no generation call, renders nothing, offers no download, and
\* displays errors only.
C4_NoTranscriptNoPipeline ==
    (EtdDone /\ ~Truthy(transcript_text)) =>
       /\ Count("generate_content") = 0
       /\ Count("create_pdf") = 0
       /\ Count("download_button") = 0
       /\ pdf = <<>> /\ pdf_data = Unbound /\ download = Unbound
       /\ \A i \in 1..Len(ActionUi) : ActionUi[i].kind = "error"
       /\ pc = "done" => ShownAt("error", 225)

C4_Witness ==
    /\ pc = "done"
    /\ button
    /\ transcript_text = Str("")
    /\ ActionUi = <<Shown("error", 225)>>

C4_WitnessMalformed ==
    /\ pc = "done"
    /\ youtube_link = "not a link"
    /\ transcript_text = None
    /\ ActionUi = <<Shown("error", 53), Shown("error", 225)>>

-----------------------------------------------------------------------------
\* C5: the download button is offered only after rendering succeeded: when
\* create_pdf returns None an error is displayed and no download button is
\* offered, and none is offered when create_pdf raises.
C5_DownloadOnlyAfterRender ==
    /\ pdf_data = None =>
          /\ ShownAt("error", 71) \/ ShownAt("error", 79)
          /\ download = Unbound
          /\ ~ShownAt("download_button", 216)
    /\ raised = "FPDFException" => download = Unbound

\* The characters a file name may not hold
IllegalChars == {"\\", "/", "*", "?", ":", "\"", "<", ">", "|"}

RECURSIVE Sanitized(_)
Sanitized(s) ==
    IF s = "" THEN ""
    ELSE (IF SubSeq(s, 1, 1) \in IllegalChars THEN "" ELSE SubSeq(s, 1, 1))
         \o Sanitized(SubSeq(s, 2, Len(s)))

\* C7: the file name offered with the download is the video title with every
\* \ / * ? : " < > | removed, then "_summary.pdf"; it holds none of them.
C7_FileNameSanitized ==
    download # Unbound =>
       /\ download.file_name = Sanitized(video_title) \o "_summary.pdf"
       /\ \A c \in IllegalChars : ~Contains(download.file_name, c)

-----------------------------------------------------------------------------
\* The generation calls the checkboxes ask for, in the handler's order
ExpectedGen ==
    LET t == transcript_text.v
    IN  <<summary_prompt \o t>>
        \o (IF include_key_points THEN <<key_points_prompt \o t>> ELSE <<>>)
        \o (IF include_qa THEN <<qa_prompt \o t>> ELSE <<>>)
        \o (IF include_code_explanation THEN <<code_explanation_prompt \o t>> ELSE <<>>)

\* C8: in one action, retrieval completes before any generation call; the
\* generation calls are Summary, then Key Points, Questions and Answers, Code
\* Explanation, each of the three only if its checkbox is set, each at most once
\* (no retry after a failure); create_pdf starts only after the last of them.
C8_ActionOrder ==
    /\ Count("generate_content") > 0 =>
          /\ EtdDone /\ Truthy(transcript_text)
          /\ IsPrefix(ArgsOf("generate_content"), ExpectedGen)
    /\ \A i \in Positions("get_transcript_en") \cup Positions("get_transcript") :
          \A j \in Positions("generate_content") : i < j
    /\ \A i \in Positions("generate_content") : \A j \in Positions("create_pdf") : i < j
    /\ Count("generate_content") <= 4
    /\ Count("create_pdf") <= 1
    /\ (\/ Count("create_pdf") > 0
        \/ pc = "assembled"
        \/ (pc = "done" /\ EtdDone /\ Truthy(transcript_text)))
       => ArgsOf("generate_content") = ExpectedGen

C8_Witness ==
    /\ pc = "done"
    /\ Count("generate_content") = 4
    /\ key_points = None
    /\ Count("create_pdf") = 1
    /\ download # Unbound

-----------------------------------------------------------------------------
WatchMarker == "youtube.com/watch?v="

\* What follows the watch marker found at position i of url
AfterMarker(url, i) == SubSeq(url, i + Len(WatchMarker), Len(url))

\* The text between the watch marker at position i and the next "&"
IdAt(url, i) == SubSeq(AfterMarker(url, i), 1, Find(AfterMarker(url, i), "&", 1) - 1)

\* url holds youtube.com/watch?v=ID&x=y at position i, ID without "&" or "v="
FragmentAt(url, i) ==
    /\ StartsWithAt(url, WatchMarker, i)
    /\ Find(AfterMarker(url, i), "&", 1) # 0
    /\ StartsWithAt(AfterMarker(url, i), "&x=y", Find(AfterMarker(url, i), "&", 1))
    /\ ~Contains(IdAt(url, i), "v=")

\* C6 as stated: for every URL that holds youtube.com/watch?v=ID&x=y, whatever
\* precedes or follows it, extract_video_id returns ID.
C6_AnyUrlWithFragment ==
    video_id # Unbound =>
       \A i \in 1..Len(youtube_link) :
          FragmentAt(youtube_link, i) => video_id = Returned(IdAt(youtube_link, i))

\* C6 amended: for every URL that holds youtube.com/watch?v=ID&x=y, holds no
\* "youtu.be/" anywhere and no "v=" before that fragment, extract_video_id
\* returns ID.
C6_FirstMarkerWins ==
    video_id # Unbound =>
       \A i \in 1..Len(youtube_link) :
          (/\ FragmentAt(youtube_link, i)
           /\ ~Contains(youtube_link, "youtu.be/")
           /\ ~Contains(SubSeq(youtube_link, 1, i - 1), "v="))
          => video_id = Returned(IdAt(youtube_link, i))

C6_Witness ==
    /\ pc = "done"
    /\ youtube_link = "https://www.youtube.com/watch?v=abc&x=y"
    /\ FragmentAt(youtube_link, 13)
    /\ video_id = Returned("abc")

-----------------------------------------------------------------------------
\* The paragraphs of section s as create_pdf splits it (none when it skips it)
ParagraphsOf(s) ==
    IF Strip(sections[s]) = "" THEN <<>>
    ELSE LET lines == Split1(sections[s], "\n")
         IN  Split(IF Len(lines) > 1 THEN lines[2] ELSE "", "\n")

\* Those of them the paragraph loop has gone through
ProcessedOf(s) ==
    IF s < sec THEN ParagraphsOf(s)
    ELSE IF s = sec /\ pc = "paragraph" THEN SubSeq(ParagraphsOf(s), 1, par - 1)
    ELSE <<>>

FencesBefore(ps, k) == Cardinality({m \in 1..(k - 1) : IsFence(ps[m])})

\* Paragraph k of ps is inside a block: not a fence, after an odd number of fences
InBlock(ps, k) == ~IsFence(ps[k]) /\ FencesBefore(ps, k) % 2 = 1

\* The paragraphs of ps inside a block that a later fence of ps closes, in order
RECURSIVE Pick(_, _, _)
Pick(ps, keep(_), k) ==
    IF k > Len(ps) THEN <<>>
    ELSE (IF keep(k) THEN <<ps[k]>> ELSE <<>>) \o Pick(ps, keep, k + 1)

ClosedCode(ps) ==
    Pick(ps, LAMBDA k : InBlock(ps, k) /\ \E m \in (k + 1)..Len(ps) : IsFence(ps[m]), 1)

\* The paragraphs of ps outside every block that are written as they are read
Outside(ps) ==
    Pick(ps, LAMBDA k : /\ ~IsFence(ps[k])
                        /\ FencesBefore(ps, k) % 2 = 0
                        /\ ~StartsWith(ps[k], "* Key Points:"), 1)

\* The texts written for section s, the section title apart: in Courier, in DejaVu
TextsOf(s, courier) ==
    LET w == SelectSeq(pdf, LAMBDA e : /\ e.sec = s
                                       /\ e.font # "DejaVu B 12"
                                       /\ (e.font = "Courier 10") = courier)
    IN  [i \in 1..Len(w) |-> w[i].text]

\* The text written for a paragraph outside every block
Plain(p) ==
    IF StartsWith(p, "*") THEN Bullet \o " " \o Strip(SubSeq(p, 2, Len(p))) ELSE p

\* C9: the code-block state is per section and buffered: each section starts
\* outside a block with an empty buffer; every fence line toggles the state and
\* is never written; the lines inside a block are buffered and written, in
\* Courier, in order, once each, only when the closing fence of the same section
\* is reached; what a section leaves buffered at its end is never written and
\* changes nothing in a later section.
C9_CodeBlockPerSection ==
    /\ (pc = "paragraph" /\ par = 1) => (in_code_block = FALSE /\ code_buffer = <<>>)
    /\ pc = "paragraph" =>
          LET ps == ProcessedOf(sec)
              lastFence == CHOOSE m \in 0..Len(ps) :
                              /\ m > 0 => IsFence(ps[m])
                              /\ \A n \in (m + 1)..Len(ps) : ~IsFence(ps[n])
          IN  /\ in_code_block = (FencesBefore(ps, Len(ps) + 1) % 2 = 1)
              /\ code_buffer = IF in_code_block
                               THEN SubSeq(ps, lastFence + 1, Len(ps))
                               ELSE <<>>
    /\ \A s \in 2..Len(sections) :
          /\ TextsOf(s, TRUE) = ClosedCode(ProcessedOf(s))
          /\ LET out == Outside(ProcessedOf(s))
             IN  TextsOf(s, FALSE) = [i \in 1..Len(out) |-> Plain(out[i])]

\* A summary that ends inside a block, a line buffered, then the key points
C9_Witness ==
    /\ pc = "download_button"
    /\ summary = Str("~~~\nt")
    /\ key_points = Str("~~~\nc\n~~~")
    /\ pdf_data.tag = "bytes"
    /\ [i \in 1..Len(pdf) |-> pdf[i].text]
         = <<"Video Title: Intro", "Summary:", "Key Points:", "c", "", "">>

-----------------------------------------------------------------------------
\* The section titles create_pdf wrote, in order
RenderedHeadings ==
    LET w == SelectSeq(pdf, LAMBDA e : e.font = "DejaVu B 12")
    IN  [i \in 1..Len(w) |-> w[i].text]

\* C10: the sections create_pdf obtains by splitting the assembled text are,
\* in number, order and heading, the sections the assembler appended.
C10_SplitRoundTrips ==
    pdf_data.tag = "bytes" =>
       RenderedHeadings = [i \in 1..Len(Kept) |-> Kept[i].heading \o ":"]

====
